---------------------------- MODULE Spec2Model ----------------------------
(***************************************************************************)
(* Model of src/Meeting_AIWord_detect/meeting_realtime.py: the real-time   *)
(* meeting capturer (RealTimeAugmenter) and its summarizer                 *)
(* (ThaiMeetingSummarizer).                                                *)
(*                                                                         *)
(* Text.  A Python str is modelled as a sequence of tokens.  A token is    *)
(* either a white-space or punctuation character (" ", "\n", ".", "!",     *)
(* "?", "|") or an indivisible piece of Thai text, written here in Latin   *)
(* transliteration because the module is ASCII:                            *)
(*    tatsinchai = ตัดสินใจ   anumat = อนุมัติ   (decision triggers)           *)
(*    tongtham   = ต้องทำ     song   = ส่ง       (action triggers)             *)
(*    phainai    = ภายใน     kon    = ก่อน      (action triggers)             *)
(*    siang      = เสี่ยง      ro     = รอ        (risk triggers)               *)
(*    khrap      = ครับ       rao    = เรา       (stop words)                  *)
(*    mai_yamok  = ๆ         (stop word, one character)                     *)
(*    ngop       = งบ         raingan = รายงาน   (plain words)               *)
(*    khun = คุณ  phi = พี่  nai = นาย  nang = นาง  sao = สาว  (honorifics)      *)
(*    somchai    = สมชาย     (a name)                                       *)
(*    wan = วัน  sapda = สัปดาห์  duean = เดือน  (units), "3" (digits)          *)
(*    mairabu    = ไม่ระบุ     (the default assignee / due)                    *)
(* len() of a str is the sum of TokLen over its tokens; "t in text" for a  *)
(* trigger t is the presence of the token t.                               *)
(***************************************************************************)
EXTENDS Integers, Sequences, FiniteSets, TLC

--------------------------------------------------------------------------
(* Bounds of the model *)

\* accepted utterances per session
MaxLog == 2
\* RequestError outcomes per session
MaxErrors == 1
\* ticks of the wall clock per session
MaxTicks == 1
\* the summarize_interval constructor argument (--summarize-interval)
SUMMARIZE_INTERVAL == 0
\* deque(maxlen=5)
TranscriptMaxLen == 5
\* utterances of a log given to the summarizer alone
MaxOfflineLog == 9
\* of these, the leading ones whose text is any of OfflineTexts
MaxVaried == 2

\* the process_audio_segment calls of a run of the server
MaxRequests == 6

\* the phrases the simplified augmenter hears, and the seconds it runs
MaxPhrases == 2
MaxAugTicks == 6

--------------------------------------------------------------------------
(* str helpers *)

WhiteSpace == {" ", "\n"}

\* len(tok) in characters of the Thai original
TokLen(tok) ==
  CASE tok = "tatsinchai" -> 8
    [] tok = "anumat" -> 7
    [] tok = "tongtham" -> 6
    [] tok = "phainai" -> 5
    [] tok = "siang" -> 6
    [] tok = "khrap" -> 4
    [] tok = "rao" -> 3
    [] tok = "ngop" -> 2
    [] tok = "raingan" -> 6
    [] tok = "khun" -> 3
    [] tok = "somchai" -> 5
    [] tok = "wan" -> 3
    [] tok = "song" -> 3
    [] tok = "ro" -> 2
    [] tok = "kon" -> 4
    [] tok = "phi" -> 3
    [] tok = "nai" -> 3
    [] tok = "wanthi" -> 6
    [] tok = "1/1/24" -> 6
    [] OTHER -> 1

RECURSIVE StrLen(_)
StrLen(s) == IF s = <<>> THEN 0 ELSE TokLen(Head(s)) + StrLen(Tail(s))

RECURSIVE LStrip(_)
LStrip(s) == IF s # <<>> /\ Head(s) \in WhiteSpace THEN LStrip(Tail(s)) ELSE s

RECURSIVE RStrip(_)
RStrip(s) ==
  IF s # <<>> /\ s[Len(s)] \in WhiteSpace THEN RStrip(SubSeq(s, 1, Len(s) - 1)) ELSE s

\* str.strip()
Strip(s) == RStrip(LStrip(s))

\* sep.join(parts)
RECURSIVE Join(_, _)
Join(parts, sep) ==
  IF parts = <<>> THEN <<>>
  ELSE IF Len(parts) = 1 THEN parts[1]
  ELSE parts[1] \o sep \o Join(Tail(parts), sep)

\* s[:n]
Take(s, n) == SubSeq(s, 1, IF Len(s) < n THEN Len(s) ELSE n)

--------------------------------------------------------------------------
(* ThaiMeetingSummarizer: the tables of __init__, restricted to the words  *)
(* of the token alphabet                                                   *)

topic_stopwords == {<<"khrap">>, <<"rao">>, <<"mai_yamok">>}

decision_triggers == {"tatsinchai", "anumat"}

action_triggers == {"tongtham", "phainai", "kon", "song"}

risk_triggers == {"siang", "ro"}

\* a regular expression over tokens: a sequence of elements, each matching
\* one token ("one"), or a greedy run of zero or more ("star") or one or
\* more ("plus") tokens, that are in `set` (neg = FALSE) or not in it
One(S) == [kind |-> "one", set |-> S, neg |-> FALSE]

WsStar == [kind |-> "star", set |-> WhiteSpace, neg |-> FALSE]

NonWsPlus == [kind |-> "plus", set |-> WhiteSpace, neg |-> TRUE]

Digits == {"3"}

DigitsPlus == [kind |-> "plus", set |-> Digits, neg |-> FALSE]

\* each pattern is a list of alternatives (a|b|c), tried in order at a position
assignee_patterns ==
  << << <<One({"khun"}), NonWsPlus>> >>,
     << <<One({"phi"}), NonWsPlus>> >>,
     << <<One({"nai"}), NonWsPlus>> >>,
     << <<One({"nang"}), NonWsPlus>> >>,
     << <<One({"nang"}), One({"sao"}), NonWsPlus>> >> >>

due_patterns ==
  << << <<One({"phainai"}), WsStar, DigitsPlus, WsStar, One({"wan", "sapda", "duean"})>> >>,
     << <<One({"kon"}), WsStar, One({"wanthi"}), WsStar, One({"1/1/24"})>> >>,
     << <<One({"phainai"}), WsStar, One({"sapdani"})>>,
        <<One({"phainai"}), WsStar, One({"dueanni"})>>,
        <<One({"sinduanni"})>>,
        <<One({"sapdana"})>>,
        <<One({"dueanna"})>> >> >>

Unspecified == <<"mairabu">>

OfflineSummaryText == "offline-heuristic"

--------------------------------------------------------------------------
(* re.search over tokens *)

ElemTakes(e, tok) == (tok \in e.set) # e.neg

\* the end of the greedy run of e starting at position i (i - 1: empty run)
RECURSIVE RunEnd(_, _, _)
RunEnd(s, i, e) ==
  IF i <= Len(s) /\ ElemTakes(e, s[i]) THEN RunEnd(s, i + 1, e) ELSE i - 1

\* the last position of a match of pat[k..] starting at i, or -1
RECURSIVE MatchFrom(_, _, _, _)
MatchFrom(s, i, pat, k) ==
  IF k > Len(pat) THEN i - 1
  ELSE LET e == pat[k] IN
       IF e.kind = "one"
       THEN IF i <= Len(s) /\ ElemTakes(e, s[i]) THEN MatchFrom(s, i + 1, pat, k + 1) ELSE -1
       ELSE LET r == RunEnd(s, i, e) IN
            IF e.kind = "plus" /\ r < i THEN -1 ELSE MatchFrom(s, r + 1, pat, k + 1)

\* the first alternative of alts that matches at i: its end, or -1
RECURSIVE AltMatchAt(_, _, _, _)
AltMatchAt(s, i, alts, a) ==
  IF a > Len(alts) THEN -1
  ELSE LET r == MatchFrom(s, i, alts[a], 1) IN
       IF r >= 0 THEN r ELSE AltMatchAt(s, i, alts, a + 1)

\* re.search(pat, s): the leftmost match as <<text>>, or <<>> for None
RECURSIVE ReSearch(_, _, _)
ReSearch(s, alts, i) ==
  IF i > Len(s) THEN <<>>
  ELSE LET r == AltMatchAt(s, i, alts, 1) IN
       IF r >= 0 THEN <<SubSeq(s, i, r)>> ELSE ReSearch(s, alts, i + 1)

--------------------------------------------------------------------------
(* ThaiMeetingSummarizer: the methods (HAS_THAI = False: the fall-back     *)
(* tokenizers of _thai_sentences and _thai_words)                          *)

SentenceEnd == {".", "!", "?", "\n", "|"}

\* re.split(r"[\.!\?\n]|[ ]{2,}|[|]", text) cuts at s[i]: a sentence-ending
\* character, or a space that belongs to a run of two or more spaces
IsCut(s, i) ==
  \/ s[i] \in SentenceEnd
  \/ /\ s[i] = " "
     /\ \/ (i > 1 /\ s[i - 1] = " ")
        \/ (i < Len(s) /\ s[i + 1] = " ")

RECURSIVE SplitParts(_, _, _, _)
SplitParts(s, i, cur, acc) ==
  IF i > Len(s) THEN Append(acc, cur)
  ELSE IF IsCut(s, i) THEN SplitParts(s, i + 1, <<>>, Append(acc, cur))
  ELSE SplitParts(s, i + 1, Append(cur, s[i]), acc)

RECURSIVE StripNonEmpty(_)
StripNonEmpty(parts) ==
  IF parts = <<>> THEN <<>>
  ELSE (IF Strip(Head(parts)) # <<>> THEN <<Strip(Head(parts))>> ELSE <<>>)
       \o StripNonEmpty(Tail(parts))

\* _thai_sentences(text)
thai_sentences(text) == StripNonEmpty(SplitParts(text, 1, <<>>, <<>>))

\* the places 1..Len(s), in order
Places(s) == [i \in 1..Len(s) |-> i]

\* the places where a piece of re.split(r"\s+", text) that is not empty starts
WordStarts(s) ==
  SelectSeq(Places(s),
            LAMBDA i : s[i] \notin WhiteSpace /\ (i = 1 \/ s[i - 1] \in WhiteSpace))

\* the place where the piece that starts at i ends
WordEnd(s, i) ==
  CHOOSE j \in i..Len(s) :
    /\ j = Len(s) \/ s[j + 1] \in WhiteSpace
    /\ \A k \in i..j : s[k] \notin WhiteSpace

\* _thai_words(text): re.split(r"\s+", text) without the empty pieces
thai_words(text) ==
  LET starts == WordStarts(text)
  IN  [k \in 1..Len(starts) |-> SubSeq(text, starts[k], WordEnd(text, starts[k]))]

\* the words counted by _extract_topics, in order of appearance
TopicWords(all_text) ==
  SelectSeq(thai_words(all_text), LAMBDA w : w \notin topic_stopwords /\ StrLen(w) >= 2)

\* freq[w]
Freq(words, w) == Cardinality({i \in 1..Len(words) : words[i] = w})

\* list(freq): the keys of the dict, in insertion order (a key is inserted
\* where its word occurs first)
FreqKeys(words) ==
  LET firsts == SelectSeq(Places(words), LAMBDA i : \A j \in 1..(i - 1) : words[j] # words[i])
  IN  [k \in 1..Len(firsts) |-> words[firsts[k]]]

\* the place of key x when keys of equal count are put latest first
RECURSIVE InsertDescLatestFirst(_, _, _)
InsertDescLatestFirst(sorted, x, words) ==
  IF sorted = <<>> THEN <<x>>
  ELSE IF Freq(words, Head(sorted)) > Freq(words, x)
       THEN <<Head(sorted)>> \o InsertDescLatestFirst(Tail(sorted), x, words)
  ELSE <<x>> \o sorted

\* the place of key x in a list sorted stably by descending count:
\* after every element whose count is at least that of x
RECURSIVE InsertDesc(_, _, _)
InsertDesc(sorted, x, words) ==
  IF sorted = <<>> THEN <<x>>
  ELSE IF Freq(words, Head(sorted)) >= Freq(words, x)
       THEN <<Head(sorted)>> \o InsertDesc(Tail(sorted), x, words)
  ELSE <<x>> \o sorted

\* sorted(freq.items(), key=lambda x: x[1], reverse=True): stable
RECURSIVE SortedByFreq(_, _, _)
SortedByFreq(keys, acc, words) ==
  IF keys = <<>> THEN acc
  ELSE SortedByFreq(Tail(keys), InsertDesc(acc, Head(keys), words), words)

extract_topics(all_text, topn) ==
  LET words == TopicWords(all_text)
  IN  Take(SortedByFreq(FreqKeys(words), <<>>, words), topn)

match_any(text, triggers) == \E i \in 1..Len(text) : text[i] \in triggers

\* the loop over the patterns taken from the last one to the first
RECURSIVE FirstPatternLast(_, _, _)
FirstPatternLast(sentence, pats, k) ==
  IF k > Len(pats) THEN Unspecified
  ELSE LET m == ReSearch(sentence, pats[Len(pats) + 1 - k], 1) IN
       IF m # <<>> THEN m[1] ELSE FirstPatternLast(sentence, pats, k + 1)

RECURSIVE FirstPattern(_, _, _)
FirstPattern(sentence, pats, k) ==
  IF k > Len(pats) THEN Unspecified
  ELSE LET m == ReSearch(sentence, pats[k], 1) IN
       IF m # <<>> THEN m[1] ELSE FirstPattern(sentence, pats, k + 1)

extract_assignee(sentence) == FirstPattern(sentence, assignee_patterns, 1)

extract_due(sentence) == FirstPattern(sentence, due_patterns, 1)

\* the texts of a list of (ts, text) pairs
Texts(utts) == [i \in 1..Len(utts) |-> utts[i].text]

\* every sentence of every utterance, in order
RECURSIVE AllSentences(_)
AllSentences(utts) ==
  IF utts = <<>> THEN <<>>
  ELSE thai_sentences(Head(utts).text) \o AllSentences(Tail(utts))

ActionItem(sent) ==
  [assignee |-> extract_assignee(sent), task |-> sent, due |-> extract_due(sent)]

\* all_text of line 114
AllText(utts) == Strip(Join(Texts(utts), <<"\n">>))

\* topics computed from the utterances of the latest instant only
OfflineTopicsLatest(utts) ==
  extract_topics(AllText(SelectSeq(utts, LAMBDA u : u.ts = utts[Len(utts)].ts)), 6)

\* summarize_offline, lines 114-115
OfflineTopics(utts) == extract_topics(AllText(utts), 6)

\* the loop of lines 122-134 with the three tests chained by elif
OfflineCandidatesExclusive(utts) ==
  LET sents == AllSentences(utts)
      acts == SelectSeq(sents, LAMBDA x : /\ ~match_any(x, decision_triggers)
                                          /\ match_any(x, action_triggers))
  IN  [decisions |-> SelectSeq(sents, LAMBDA x : match_any(x, decision_triggers)),
       action_items |-> [i \in 1..Len(acts) |-> ActionItem(acts[i])],
       risks_or_followups |->
         SelectSeq(sents, LAMBDA x : /\ ~match_any(x, decision_triggers)
                                     /\ ~match_any(x, action_triggers)
                                     /\ match_any(x, risk_triggers))]

\* summarize_offline, lines 117-134: the lists decisions, action_items and
\* risks when the loop ends
OfflineCandidates(utts) ==
  LET sents == AllSentences(utts)
      acts == SelectSeq(sents, LAMBDA x : match_any(x, action_triggers))
  IN  [decisions |-> SelectSeq(sents, LAMBDA x : match_any(x, decision_triggers)),
       action_items |-> [i \in 1..Len(acts) |-> ActionItem(acts[i])],
       risks_or_followups |-> SelectSeq(sents, LAMBDA x : match_any(x, risk_triggers))]

\* summarize_offline, lines 117-134 and the caps of lines 145-147
OfflineClassify(utts) ==
  LET cand == OfflineCandidates(utts)
  IN  [decisions |-> Take(cand.decisions, 10),
       action_items |-> Take(cand.action_items, 20),
       risks_or_followups |-> Take(cand.risks_or_followups, 10)]

\* the test of line 138 with len(text) > 25
OfflineHighlightCandidatesOver25(utts) ==
  SelectSeq(Texts(utts),
            LAMBDA t : StrLen(t) > 25
                       /\ (match_any(t, decision_triggers \cup action_triggers)
                           \/ StrLen(t) > 60))

\* summarize_offline, lines 136-139: the list highlights when the loop ends
OfflineHighlightCandidates(utts) ==
  SelectSeq(Texts(utts),
            LAMBDA t : StrLen(t) >= 25
                       /\ (match_any(t, decision_triggers \cup action_triggers)
                           \/ StrLen(t) > 60))

\* lines 136-139 without the cut of line 140
OfflineHighlightsUncapped(utts) == OfflineHighlightCandidates(utts)

\* summarize_offline, lines 136-140
OfflineHighlights(utts) == Take(OfflineHighlightCandidates(utts), 8)

\* summarize_offline, lines 142-150
OfflineDoc(topics, cls, highlights) ==
  [summary |-> OfflineSummaryText,
   topics |-> topics,
   decisions |-> cls.decisions,
   action_items |-> cls.action_items,
   risks_or_followups |-> cls.risks_or_followups,
   highlights |-> highlights]

\* summarize_offline() on a log that does not change while it runs
summarize_offline(utts) ==
  OfflineDoc(OfflineTopics(utts), OfflineClassify(utts), OfflineHighlights(utts))

--------------------------------------------------------------------------
(* RealTimeAugmenter: the state of a session                               *)

VARIABLES
  pc,                 \* where the main thread is in run()
  pass,               \* the summarize() call in progress: none, periodic, final
  loc,                \* the locals of the summarize() call in progress
  final_summary,      \* run's local final_summary
  live_transcript,    \* self.live_transcript = deque(maxlen=5)
  all_utterances,     \* self.all_utterances
  sum_utterances,     \* self.summarizer.utterances
  last_text,          \* self.last_text
  lock,               \* the owner of self.lock
  running,            \* the flag of listen_in_background's listener thread
  clock,              \* time.time()
  last_summary_time,  \* self.last_summary_time
  live_summary_cache, \* self.live_summary_cache
  cb_pc,              \* where each running _audio_callback is
  cb_text,            \* its local text (<<>> outside _process_text)
  cb_now,             \* its local now (0 outside _process_text)
  out_transcript,     \* the lines written to self.out_transcript
  out_summary_json,   \* the document written to self.out_summary_json
  use_gemini,         \* HAS_GEMINI and GOOGLE_API_KEY is set
  callers             \* the threads that run _audio_callback

\* src/PW/main.py: the transcription server
VARIABLES
  model,              \* the global model (FALSE is None)
  model_loaded,       \* app_state["model_loaded"]
  recognizer_pool,    \* the global recognizer_pool, a list of recognizers
  recognizer,         \* process_audio_segment's local recognizer
  req_pc,             \* where the event loop is: start-up, idle, in a request
  requests,           \* the process_audio_segment calls that have ended
  rq_pc,              \* where each concurrent /transcribe request is
  rq_recognizer       \* the local recognizer of its process_audio_segment

\* src/Sp-wordCheck/augmenter.py: the simplified augmenter, which also uses
\* live_transcript (its deque(maxlen=3)), clock and running
VARIABLES
  filler_word_counts,     \* self.filler_word_counts
  pacing_word_count,      \* self.pacing_word_count
  pacing_start_time,      \* self.pacing_start_time
  spoken_text_history,    \* self.spoken_text_history
  triggered_keywords_log, \* self.triggered_keywords_log = deque(maxlen=5)
  aug_pc,                 \* where the main thread is in run()
  aug_cb,                 \* where the listener thread is in _audio_callback
  aug_text,               \* the callback's text (<<>> outside _process_text)
  phrases                 \* the _audio_callback calls so far

vars ==
  <<pc, pass, loc, final_summary, live_transcript, all_utterances, sum_utterances,
    last_text, lock, running, clock, last_summary_time, live_summary_cache,
    cb_pc, cb_text, cb_now, out_transcript, out_summary_json, use_gemini, callers,
    model, model_loaded, recognizer_pool, recognizer, req_pc, requests,
    rq_pc, rq_recognizer,
    filler_word_counts, pacing_word_count, pacing_start_time, spoken_text_history,
    triggered_keywords_log, aug_pc, aug_cb, aug_text, phrases>>

mainVars == <<pc, pass, loc, final_summary>>

bufferVars == <<live_transcript, all_utterances, sum_utterances>>

cbVars == <<cb_pc, cb_text, cb_now>>

outVars == <<out_transcript, out_summary_json>>

\* the /transcribe requests that can be in flight together
Requests == {"r1", "r2"}

loopVars == <<rq_pc, rq_recognizer>>

poolVars ==
  <<model, model_loaded, recognizer_pool, recognizer, req_pc, requests, loopVars>>

\* what no step of a session changes: its environment and the other programs
augVars ==
  <<filler_word_counts, pacing_word_count, pacing_start_time, spoken_text_history,
    triggered_keywords_log, aug_pc, aug_cb, aug_text, phrases>>

envVars == <<use_gemini, callers, poolVars, augVars>>

\* None as the value of a recognizer variable; recognizers are 1, 2, ...
NoRecognizer == 0

\* src/PW/main.py at import: lines 39, 47 and 101; no request in progress
PoolInit ==
  /\ model = FALSE
  /\ model_loaded = FALSE
  /\ recognizer_pool = <<>>
  /\ recognizer = NoRecognizer
  /\ req_pc = "startup"
  /\ requests = 0
  /\ rq_pc = [r \in Requests |-> "none"]
  /\ rq_recognizer = [r \in Requests |-> NoRecognizer]

CallbackThreads == {"cb1", "cb2"}

\* augmenter.py line 14, two of the six: oe = เอ่อ, baep = แบบ
FILLER_WORDS == <<"oe", "baep">>

\* augmenter.py lines 25-31, before run() is called
AugInit ==
  /\ filler_word_counts = [w \in {FILLER_WORDS[i] : i \in 1..Len(FILLER_WORDS)} |-> 0]
  /\ pacing_word_count = 0
  /\ pacing_start_time = SUMMARIZE_INTERVAL + 1
  /\ spoken_text_history = {}
  /\ triggered_keywords_log = <<>>
  /\ aug_pc = "calibrate"
  /\ aug_cb = "idle"
  /\ aug_text = <<>>
  /\ phrases = 0

\* Python's None, where a str is expected
NoneText == <<"None">>

\* Python's None, where a dict is expected
NoneDoc == [none |-> TRUE]

\* bool(x) of a str or None
Truthy(x) == x # NoneText /\ x # <<>>

\* f"[connection error: {e}]", the notice line of _audio_callback
Notice == <<"[request_error]">>

\* what recognize_google returns in the model
Results ==
  { <<>>, <<" ">>,
    <<"rao", "tatsinchai", "anumat", "ngop">>,
    <<" ", "rao", "tatsinchai", "anumat", "ngop", " ">>,
    <<"khun", "somchai", "tongtham", "raingan", ".", "ro", "ngop">> }

\* what json.loads(resp.text) returns in the model when it returns:
\* an empty object, an object with one of the keys, an object with all
AiResponses ==
  { [empty |-> TRUE],
    [summary |-> "ai"],
    [summary |-> "ai", topics |-> <<>>, decisions |-> <<>>, action_items |-> <<>>,
     risks_or_followups |-> <<>>, highlights |-> <<>>] }

\* bool(data) of a dict or None
TruthyDoc(d) == d # NoneDoc /\ d # [empty |-> TRUE]

ClockStart == SUMMARIZE_INTERVAL + 1

ClockEnd == ClockStart + MaxTicks

LocInit == [topics |-> <<>>, cls |-> NoneDoc]

\* deque(maxlen=5).append(x)
DequeAppend(d, x) ==
  IF Len(d) >= TranscriptMaxLen THEN Append(Tail(d), x) ELSE Append(d, x)

NoticeCount == Cardinality({i \in 1..Len(live_transcript) : live_transcript[i] = Notice})

InitWith(cs) ==
  /\ pc = "calibrate"
  /\ pass = "none"
  /\ loc = LocInit
  /\ final_summary = NoneDoc
  /\ live_transcript = <<>>
  /\ all_utterances = <<>>
  /\ sum_utterances = <<>>
  /\ last_text = NoneText
  /\ lock = "free"
  /\ running = FALSE
  /\ clock = ClockStart
  /\ last_summary_time = 0
  /\ live_summary_cache = NoneDoc
  /\ cb_pc = [c \in CallbackThreads |-> "idle"]
  /\ cb_text = [c \in CallbackThreads |-> <<>>]
  /\ cb_now = [c \in CallbackThreads |-> 0]
  /\ out_transcript = NoneDoc
  /\ out_summary_json = NoneDoc
  /\ use_gemini \in BOOLEAN
  /\ callers = cs
  /\ PoolInit
  /\ AugInit

\* one listener thread: listen_in_background calls the callback in its loop
Init == InitWith({"cb1"})

--------------------------------------------------------------------------
(* The capture path: the listener thread and _audio_callback               *)

\* the listener has a phrase and calls _audio_callback (while running)
Listen(c) ==
  /\ running
  /\ cb_pc[c] = "idle"
  /\ Len(all_utterances) < MaxLog
  /\ cb_pc' = [cb_pc EXCEPT ![c] = "recognize"]
  /\ UNCHANGED <<mainVars, bufferVars, last_text, lock, running, clock,
                 last_summary_time, live_summary_cache, cb_text, cb_now, outVars, envVars>>

\* recognize_google returns r; _process_text lines 269-270
RecognizeText(c) ==
  /\ cb_pc[c] = "recognize"
  /\ \E r \in Results :
       /\ cb_text' = [cb_text EXCEPT ![c] = Strip(r)]
       /\ cb_pc' = [cb_pc EXCEPT ![c] = IF Strip(r) = <<>> THEN "empty" ELSE "dedup"]
  /\ UNCHANGED <<mainVars, bufferVars, last_text, lock, running, clock,
                 last_summary_time, live_summary_cache, cb_now, outVars, envVars>>

\* lines 269-275 with the assignment of last_text ahead of the test of line 270
ReturnEmptyClearsLast(c) ==
  /\ cb_pc[c] = "empty"
  /\ last_text' = cb_text[c]
  /\ cb_pc' = [cb_pc EXCEPT ![c] = "idle"]
  /\ UNCHANGED <<mainVars, bufferVars, lock, running, clock,
                 last_summary_time, live_summary_cache, cb_text, cb_now, outVars, envVars>>

\* _process_text line 271: the text is empty after strip()
ReturnEmpty(c) ==
  /\ cb_pc[c] = "empty"
  /\ cb_pc' = [cb_pc EXCEPT ![c] = "idle"]
  /\ UNCHANGED <<mainVars, bufferVars, last_text, lock, running, clock,
                 last_summary_time, live_summary_cache, cb_text, cb_now, outVars, envVars>>

\* the test of line 273 written with "is": a str that the recognizer has just
\* returned is never the object kept in last_text
IsRepeatByIdentity(last, text) == Truthy(last) /\ text = last /\ FALSE

\* the test of line 273
IsRepeat(last, text) == Truthy(last) /\ text = last

\* _process_text lines 273-274
Dedup(c) ==
  /\ cb_pc[c] = "dedup"
  /\ IF IsRepeat(last_text, cb_text[c])
     THEN /\ cb_pc' = [cb_pc EXCEPT ![c] = "idle"]
          /\ cb_text' = [cb_text EXCEPT ![c] = <<>>]
     ELSE /\ cb_pc' = [cb_pc EXCEPT ![c] = "set_last"]
          /\ cb_text' = cb_text
  /\ UNCHANGED <<mainVars, bufferVars, last_text, lock, running, clock,
                 last_summary_time, live_summary_cache, cb_now, outVars, envVars>>

\* _process_text lines 275-277
SetLast(c) ==
  /\ cb_pc[c] = "set_last"
  /\ last_text' = cb_text[c]
  /\ cb_now' = [cb_now EXCEPT ![c] = clock]
  /\ cb_pc' = [cb_pc EXCEPT ![c] = "lock"]
  /\ UNCHANGED <<mainVars, bufferVars, lock, running, clock,
                 last_summary_time, live_summary_cache, cb_text, outVars, envVars>>

\* _process_text line 278
AcquireAppend(c) ==
  /\ cb_pc[c] = "lock"
  /\ lock = "free"
  /\ lock' = c
  /\ cb_pc' = [cb_pc EXCEPT ![c] = "append_live"]
  /\ UNCHANGED <<mainVars, bufferVars, last_text, running, clock,
                 last_summary_time, live_summary_cache, cb_text, cb_now, outVars, envVars>>

\* _process_text line 279
AppendLive(c) ==
  /\ cb_pc[c] = "append_live"
  /\ live_transcript' = DequeAppend(live_transcript, cb_text[c])
  /\ cb_pc' = [cb_pc EXCEPT ![c] = "append_all"]
  /\ UNCHANGED <<mainVars, all_utterances, sum_utterances, last_text, lock, running, clock,
                 last_summary_time, live_summary_cache, cb_text, cb_now, outVars, envVars>>

\* _process_text line 280
AppendAll(c) ==
  /\ cb_pc[c] = "append_all"
  /\ all_utterances' = Append(all_utterances, [ts |-> cb_now[c], text |-> cb_text[c]])
  /\ cb_pc' = [cb_pc EXCEPT ![c] = "append_sum"]
  /\ UNCHANGED <<mainVars, live_transcript, sum_utterances, last_text, lock, running, clock,
                 last_summary_time, live_summary_cache, cb_text, cb_now, outVars, envVars>>

\* line 281 with a second time.time() as the timestamp
AppendSumNow(c) ==
  /\ cb_pc[c] = "append_sum"
  /\ sum_utterances' = Append(sum_utterances, [ts |-> clock, text |-> cb_text[c]])
  /\ lock' = "free"
  /\ cb_pc' = [cb_pc EXCEPT ![c] = "idle"]
  /\ cb_text' = [cb_text EXCEPT ![c] = <<>>]
  /\ cb_now' = [cb_now EXCEPT ![c] = 0]
  /\ UNCHANGED <<mainVars, live_transcript, all_utterances, last_text, running, clock,
                 last_summary_time, live_summary_cache, outVars, envVars>>

\* _process_text line 281 (add_utterance, lines 61-62) and the end of the with block
AppendSum(c) ==
  /\ cb_pc[c] = "append_sum"
  /\ sum_utterances' = Append(sum_utterances, [ts |-> cb_now[c], text |-> cb_text[c]])
  /\ lock' = "free"
  /\ cb_pc' = [cb_pc EXCEPT ![c] = "idle"]
  /\ cb_text' = [cb_text EXCEPT ![c] = <<>>]
  /\ cb_now' = [cb_now EXCEPT ![c] = 0]
  /\ UNCHANGED <<mainVars, live_transcript, all_utterances, last_text, running, clock,
                 last_summary_time, live_summary_cache, outVars, envVars>>

\* recognize_google raises sr.UnknownValueError: line 288
RecognizeUnknown(c) ==
  /\ cb_pc[c] = "recognize"
  /\ cb_pc' = [cb_pc EXCEPT ![c] = "unknown"]
  /\ UNCHANGED <<mainVars, bufferVars, last_text, lock, running, clock,
                 last_summary_time, live_summary_cache, cb_text, cb_now, outVars, envVars>>

\* the handler of line 289 as one that reports the outcome like a RequestError
PassUnknownNoticed(c) ==
  /\ cb_pc[c] = "unknown"
  /\ lock = "free"
  /\ live_transcript' = DequeAppend(live_transcript, Notice)
  /\ cb_pc' = [cb_pc EXCEPT ![c] = "idle"]
  /\ UNCHANGED <<mainVars, all_utterances, sum_utterances, last_text, lock, running, clock,
                 last_summary_time, live_summary_cache, cb_text, cb_now, outVars, envVars>>

\* line 289: pass, and _audio_callback returns
PassUnknown(c) ==
  /\ cb_pc[c] = "unknown"
  /\ cb_pc' = [cb_pc EXCEPT ![c] = "idle"]
  /\ UNCHANGED <<mainVars, bufferVars, last_text, lock, running, clock,
                 last_summary_time, live_summary_cache, cb_text, cb_now, outVars, envVars>>

\* recognize_google raises sr.RequestError: line 290
RecognizeRequestError(c) ==
  /\ cb_pc[c] = "recognize"
  /\ NoticeCount < MaxErrors
  /\ cb_pc' = [cb_pc EXCEPT ![c] = "err_lock"]
  /\ UNCHANGED <<mainVars, bufferVars, last_text, lock, running, clock,
                 last_summary_time, live_summary_cache, cb_text, cb_now, outVars, envVars>>

\* line 291
AcquireNotice(c) ==
  /\ cb_pc[c] = "err_lock"
  /\ lock = "free"
  /\ lock' = c
  /\ cb_pc' = [cb_pc EXCEPT ![c] = "err_append"]
  /\ UNCHANGED <<mainVars, bufferVars, last_text, running, clock,
                 last_summary_time, live_summary_cache, cb_text, cb_now, outVars, envVars>>

\* lines 291-293 as a handler that also ends the capture
AppendNoticeAndStop(c) ==
  /\ cb_pc[c] = "err_append"
  /\ live_transcript' = DequeAppend(live_transcript, Notice)
  /\ lock' = "free"
  /\ running' = FALSE
  /\ cb_pc' = [cb_pc EXCEPT ![c] = "idle"]
  /\ UNCHANGED <<mainVars, all_utterances, sum_utterances, last_text, clock,
                 last_summary_time, live_summary_cache, cb_text, cb_now, outVars, envVars>>

\* line 293 and the end of the with block
AppendNotice(c) ==
  /\ cb_pc[c] = "err_append"
  /\ live_transcript' = DequeAppend(live_transcript, Notice)
  /\ lock' = "free"
  /\ cb_pc' = [cb_pc EXCEPT ![c] = "idle"]
  /\ UNCHANGED <<mainVars, all_utterances, sum_utterances, last_text, running, clock,
                 last_summary_time, live_summary_cache, cb_text, cb_now, outVars, envVars>>

\* time passes
Tick ==
  /\ clock < ClockEnd
  /\ clock' = clock + 1
  /\ UNCHANGED <<mainVars, bufferVars, last_text, lock, running,
                 last_summary_time, live_summary_cache, cbVars, outVars, envVars>>

--------------------------------------------------------------------------
(* The main thread: run()                                                  *)

MAIN == "main"

\* lines 343-345: the microphone opens and the calibration returns
Calibrate ==
  /\ pc = "calibrate"
  /\ pc' = "listen_bg"
  /\ UNCHANGED <<pass, loc, final_summary, bufferVars, last_text, lock, running, clock,
                 last_summary_time, live_summary_cache, cbVars, outVars, envVars>>

\* run with listen_in_background called ahead of the calibration of lines 343-344
CalibrateFailsAfterListen ==
  /\ pc = "calibrate"
  /\ pc' = "raised_startup"
  /\ running' = TRUE
  /\ UNCHANGED <<pass, loc, final_summary, bufferVars, last_text, lock, clock,
                 last_summary_time, live_summary_cache, cbVars, outVars, envVars>>

\* lines 343-344: opening the microphone or the calibration raises
CalibrateFails ==
  /\ pc = "calibrate"
  /\ pc' = "raised_startup"
  /\ UNCHANGED <<pass, loc, final_summary, bufferVars, last_text, lock, running, clock,
                 last_summary_time, live_summary_cache, cbVars, outVars, envVars>>

\* line 347
ListenInBackground ==
  /\ pc = "listen_bg"
  /\ running' = TRUE
  /\ pc' = "loop"
  /\ UNCHANGED <<pass, loc, final_summary, bufferVars, last_text, lock, clock,
                 last_summary_time, live_summary_cache, cbVars, outVars, envVars>>

\* the test of line 352 with >=
SummaryDueAtLeast(now, last) == now - last >= SUMMARIZE_INTERVAL

\* the test of line 352
SummaryDue(now, last) == now - last > SUMMARIZE_INTERVAL

\* line 352, and the call of summarize at line 353 (lines 181-183)
LoopCheck ==
  /\ pc = "loop"
  /\ IF SummaryDue(clock, last_summary_time)
     THEN pc' = "summarize" /\ pass' = "periodic"
     ELSE pc' = "display" /\ pass' = pass
  /\ UNCHANGED <<loc, final_summary, bufferVars, last_text, lock, running, clock,
                 last_summary_time, live_summary_cache, cbVars, outVars, envVars>>

\* line 353 as an update of the cached document key by key, the first key done
ReturnPartial(doc) ==
  /\ IF pass = "periodic"
     THEN /\ live_summary_cache' = [summary |-> doc.summary]
          /\ last_summary_time' = clock
          /\ final_summary' = final_summary
          /\ pc' = "display"
     ELSE /\ final_summary' = doc
          /\ live_summary_cache' = live_summary_cache
          /\ last_summary_time' = last_summary_time
          /\ pc' = "save_lock"
  /\ pass' = "none"
  /\ loc' = LocInit

\* summarize returns doc: the assignments of lines 353-354, or of line 363
\* and the call of _save_results of line 364
Return(doc) ==
  /\ IF pass = "periodic"
     THEN /\ live_summary_cache' = doc
          /\ last_summary_time' = clock
          /\ final_summary' = final_summary
          /\ pc' = "display"
     ELSE /\ final_summary' = doc
          /\ live_summary_cache' = live_summary_cache
          /\ last_summary_time' = last_summary_time
          /\ pc' = "save_lock"
  /\ pass' = "none"
  /\ loc' = LocInit

\* summarize_with_gemini lines 153-155 return None; summarize goes on to line 186
GeminiDisabled ==
  /\ pc = "summarize"
  /\ ~use_gemini
  /\ pc' = "off_topics"
  /\ UNCHANGED <<pass, loc, final_summary, bufferVars, last_text, lock, running, clock,
                 last_summary_time, live_summary_cache, cbVars, outVars, envVars>>

\* lines 153-173: genai.configure and genai.GenerativeModel return, and the
\* prompt is built from self.utterances
GeminiConfigure ==
  /\ pc = "summarize"
  /\ use_gemini
  /\ pc' = "gemini_generate"
  /\ UNCHANGED <<pass, loc, final_summary, bufferVars, last_text, lock, running, clock,
                 last_summary_time, live_summary_cache, cbVars, outVars, envVars>>

\* lines 156-165 raise (genai.configure, genai.GenerativeModel): they are in no
\* try, and run catches only KeyboardInterrupt, so the exception leaves run()
GeminiConfigureRaises ==
  /\ pc = "summarize"
  /\ use_gemini
  /\ pc' = "raised_summarize"
  /\ pass' = "none"
  /\ loc' = LocInit
  /\ UNCHANGED <<final_summary, bufferVars, last_text, lock, running, clock,
                 last_summary_time, live_summary_cache, cbVars, outVars, envVars>>

\* lines 174-179 and 184-186: generate_content or json.loads raises (None),
\* or json.loads returns data that is falsy: summarize goes on to line 186
GeminiUnavailable ==
  /\ pc = "gemini_generate"
  /\ pc' = "off_topics"
  /\ UNCHANGED <<pass, loc, final_summary, bufferVars, last_text, lock, running, clock,
                 last_summary_time, live_summary_cache, cbVars, outVars, envVars>>

\* lines 174-177 and 184-185: json.loads returns truthy data, summarize returns it
GeminiReturns ==
  /\ pc = "gemini_generate"
  /\ \E data \in AiResponses : TruthyDoc(data) /\ Return(data)
  /\ UNCHANGED <<bufferVars, last_text, lock, running, clock, cbVars, outVars, envVars>>

\* summarize_offline lines 114-115 under the buffer lock, kept for the pass
OfflineTopicsStepLocked ==
  /\ pc = "off_topics"
  /\ lock = "free"
  /\ lock' = "main"
  /\ loc' = [loc EXCEPT !.topics = OfflineTopics(sum_utterances)]
  /\ pc' = "off_classify"
  /\ UNCHANGED <<pass, final_summary, bufferVars, last_text, running, clock,
                 last_summary_time, live_summary_cache, cbVars, outVars, envVars>>

\* summarize_offline lines 114-115
OfflineTopicsStep ==
  /\ pc = "off_topics"
  /\ loc' = [loc EXCEPT !.topics = OfflineTopics(sum_utterances)]
  /\ pc' = "off_classify"
  /\ UNCHANGED <<pass, final_summary, bufferVars, last_text, lock, running, clock,
                 last_summary_time, live_summary_cache, cbVars, outVars, envVars>>

\* summarize_offline lines 117-134: the loop ends on the list as it is then
OfflineClassifyStep ==
  /\ pc = "off_classify"
  /\ loc' = [loc EXCEPT !.cls = OfflineClassify(sum_utterances)]
  /\ pc' = "off_highlights"
  /\ UNCHANGED <<pass, final_summary, bufferVars, last_text, lock, running, clock,
                 last_summary_time, live_summary_cache, cbVars, outVars, envVars>>

\* summarize_offline lines 136-150, and summarize returns the document
OfflineHighlightsStep ==
  /\ pc = "off_highlights"
  /\ Return(OfflineDoc(loc.topics, loc.cls, OfflineHighlights(sum_utterances)))
  /\ UNCHANGED <<bufferVars, last_text, lock, running, clock, cbVars, outVars, envVars>>

\* _display_dashboard lines 235-243
DisplayAcquire ==
  /\ pc = "display"
  /\ lock = "free"
  /\ lock' = MAIN
  /\ pc' = "display_read"
  /\ UNCHANGED <<pass, loc, final_summary, bufferVars, last_text, running, clock,
                 last_summary_time, live_summary_cache, cbVars, outVars, envVars>>

\* _display_dashboard lines 244-265 (the with block ends at line 248), and
\* the sleep of line 357
DisplayRender ==
  /\ pc = "display_read"
  /\ lock' = "free"
  /\ pc' = "loop"
  /\ UNCHANGED <<pass, loc, final_summary, bufferVars, last_text, running, clock,
                 last_summary_time, live_summary_cache, cbVars, outVars, envVars>>

\* the statements of the try block, lines 350-357
TryBlock ==
  {"loop", "summarize", "gemini_generate", "off_topics", "off_classify", "off_highlights",
   "display", "display_read"}

\* Ctrl+C inside the try block: lines 358-359 (a with block releases its lock)
KeyboardInterrupt ==
  /\ pc \in TryBlock
  /\ pass \in {"none", "periodic"}
  /\ pc' = "stop"
  /\ pass' = "none"
  /\ loc' = LocInit
  /\ lock' = IF lock = MAIN THEN "free" ELSE lock
  /\ UNCHANGED <<final_summary, bufferVars, last_text, running, clock,
                 last_summary_time, live_summary_cache, cbVars, outVars, envVars>>

\* line 360: stop_listening(wait_for_stop=False), then the call of line 363
StopListening ==
  /\ pc = "stop"
  /\ running' = FALSE
  /\ pass' = "final"
  /\ pc' = "summarize"
  /\ UNCHANGED <<loc, final_summary, bufferVars, last_text, lock, clock,
                 last_summary_time, live_summary_cache, cbVars, outVars, envVars>>

\* _save_results lines 298-299
SaveAcquire ==
  /\ pc = "save_lock"
  /\ lock = "free"
  /\ lock' = MAIN
  /\ pc' = "save_transcript"
  /\ UNCHANGED <<pass, loc, final_summary, bufferVars, last_text, running, clock,
                 last_summary_time, live_summary_cache, cbVars, outVars, envVars>>

\* the lines of lines 300-302: the offset from the first utterance, and the text
TranscriptLines(utts) ==
  [i \in 1..Len(utts) |-> [rel |-> utts[i].ts - utts[1].ts, text |-> utts[i].text]]

\* _save_results that empties the log once it is written
SaveResultsClearsLog ==
  /\ pc = "save_transcript"
  /\ out_transcript' = [lines |-> TranscriptLines(all_utterances)]
  /\ out_summary_json' = final_summary
  /\ all_utterances' = <<>>
  /\ lock' = "free"
  /\ pc' = "done"
  /\ UNCHANGED <<pass, loc, final_summary, live_transcript, sum_utterances, last_text,
                 running, clock, last_summary_time, live_summary_cache, cbVars, envVars>>

\* _save_results lines 300-338 (the with block ends at line 302), and line 365
SaveResults ==
  /\ pc = "save_transcript"
  /\ out_transcript' = [lines |-> TranscriptLines(all_utterances)]
  /\ out_summary_json' = final_summary
  /\ lock' = "free"
  /\ pc' = "done"
  /\ UNCHANGED <<pass, loc, final_summary, bufferVars, last_text, running, clock,
                 last_summary_time, live_summary_cache, cbVars, envVars>>

--------------------------------------------------------------------------

Capture(c) ==
  \/ Listen(c)
  \/ RecognizeText(c)
  \/ ReturnEmpty(c)
  \/ RecognizeUnknown(c)
  \/ PassUnknown(c)
  \/ RecognizeRequestError(c)
  \/ Dedup(c)
  \/ SetLast(c)
  \/ AcquireAppend(c)
  \/ AppendLive(c)
  \/ AppendAll(c)
  \/ AppendSum(c)
  \/ AcquireNotice(c)
  \/ AppendNotice(c)

Main ==
  \/ Calibrate
  \/ CalibrateFails
  \/ ListenInBackground
  \/ LoopCheck
  \/ GeminiDisabled
  \/ GeminiConfigure
  \/ GeminiConfigureRaises
  \/ GeminiUnavailable
  \/ GeminiReturns
  \/ OfflineTopicsStep
  \/ OfflineClassifyStep
  \/ OfflineHighlightsStep
  \/ DisplayAcquire
  \/ DisplayRender
  \/ KeyboardInterrupt
  \/ StopListening
  \/ SaveAcquire
  \/ SaveResults

Next ==
  \/ Main
  \/ \E c \in callers : Capture(c)
  \/ Tick

Spec == Init /\ [][Next]_vars

\* the steps of a callback once recognize_google has returned or raised
Processing(c) ==
  \/ ReturnEmpty(c)
  \/ PassUnknown(c)
  \/ Dedup(c)
  \/ SetLast(c)
  \/ AcquireAppend(c)
  \/ AppendLive(c)
  \/ AppendAll(c)
  \/ AppendSum(c)
  \/ AcquireNotice(c)
  \/ AppendNotice(c)

\* the session with threads that go on: the main thread takes its next step,
\* a callback goes on once its recognition call is over; a recognition call
\* may never return
LiveSpec ==
  /\ Init
  /\ [][Next]_vars
  /\ WF_vars(Main)
  /\ WF_vars(\E c \in callers : Processing(c))

\* the capture path with _audio_callback called from two threads at a time,
\* while the main thread stays in its loop
NextConcurrent ==
  \/ Calibrate
  \/ ListenInBackground
  \/ \E c \in callers : Capture(c)

ConcurrentSpec == InitWith(CallbackThreads) /\ [][NextConcurrent]_vars

--------------------------------------------------------------------------
(* ThaiMeetingSummarizer alone: one thread that fills the log with          *)
(* add_utterance and calls _extract_topics and summarize_offline.  The log  *)
(* is sum_utterances; final_summary is what the latest summarize_offline    *)
(* call returned and live_summary_cache what the call before it returned on *)
(* the same log; loc holds the return of _extract_topics.                   *)

\* an utterance of four sentences: an action item with assignee and due, two
\* sentences with a decision, an action and a risk trigger, one with none
Rich ==
  <<"khun", "somchai", " ", "tongtham", " ", "phainai", " ", "3", " ", "wan", " ", ".", " ",
    "tatsinchai", " ", "tongtham", " ", "siang", " ", ".", " ",
    "anumat", " ", "song", " ", "ro", " ", ".", " ",
    "ngop", " ", "khrap">>

\* 60 characters, no trigger
Plain60 ==
  <<"raingan", " ", "somchai", " ", "raingan", " ", "somchai", " ", "raingan", " ", "somchai",
    " ", "raingan", " ", "somchai", " ", "raingan", " ", "3">>

\* 61 characters, no trigger
Plain61 ==
  <<"raingan", " ", "somchai", " ", "raingan", " ", "somchai", " ", "raingan", " ", "somchai",
    " ", "raingan", " ", "somchai", " ", "raingan", " ", "ngop">>

\* 20 characters, two decision triggers
Short == <<"rao", "tatsinchai", "anumat", "ngop">>

\* 25 characters, a decision trigger
Exact25 == <<"tatsinchai", " ", "raingan", " ", "raingan", " ", "ngop">>

\* 52 characters, action triggers, two assignees (the third pattern matches
\* ahead of the first) and two due dates (the second pattern ahead of the first)
Action52 ==
  <<"nai", "somchai", " ", "song", " ", "khun", "somchai", " ", "kon", " ", "wanthi", " ",
    "1/1/24", " ", "phainai", " ", "3", " ", "wan">>

OfflineTexts == {Rich, Plain60, Plain61, Short, Exact25, Action52}

\* the topn argument of _extract_topics: some, its default, that of line 115
TopNs == {2, 5, 6}

InitSummarizer ==
  /\ pc = "ready"
  /\ pass = "none"
  /\ loc = LocInit
  /\ final_summary = NoneDoc
  /\ live_transcript = <<>>
  /\ all_utterances = <<>>
  /\ sum_utterances = <<>>
  /\ last_text = NoneText
  /\ lock = "free"
  /\ running = FALSE
  /\ clock = ClockStart
  /\ last_summary_time = 0
  /\ live_summary_cache = NoneDoc
  /\ cb_pc = [c \in CallbackThreads |-> "idle"]
  /\ cb_text = [c \in CallbackThreads |-> <<>>]
  /\ cb_now = [c \in CallbackThreads |-> 0]
  /\ out_transcript = NoneDoc
  /\ out_summary_json = NoneDoc
  /\ use_gemini = FALSE
  /\ callers = {}
  /\ PoolInit
  /\ AugInit

\* add_utterance(now, text), lines 61-62, each call at a later instant
add_utterance ==
  /\ Len(sum_utterances) < MaxOfflineLog
  /\ \E text \in OfflineTexts :
       /\ text = Rich \/ Len(sum_utterances) < MaxVaried
       /\ sum_utterances' = Append(sum_utterances, [ts |-> clock, text |-> text])
  /\ clock' = clock + 1
  /\ pc' = "ready"
  /\ loc' = LocInit
  /\ final_summary' = NoneDoc
  /\ live_summary_cache' = NoneDoc
  /\ UNCHANGED <<pass, live_transcript, all_utterances, last_text, lock, running,
                 last_summary_time, cbVars, outVars, envVars>>

\* _extract_topics(all_text, topn), lines 83-93, on the text of the log
ExtractTopicsCall ==
  /\ pc = "ready"
  /\ \E n \in TopNs :
       loc' = [topics |-> extract_topics(AllText(sum_utterances), n), cls |-> NoneDoc,
               topn |-> n]
  /\ pc' = "topics_returned"
  /\ UNCHANGED <<pass, final_summary, bufferVars, last_text, lock, running, clock,
                 last_summary_time, live_summary_cache, cbVars, outVars, envVars>>

\* summarize_offline(), lines 112-150, called once or twice on the same log
SummarizeOfflineCall ==
  /\ pc \in {"ready", "topics_returned", "returned"}
  /\ live_summary_cache = NoneDoc
  /\ live_summary_cache' = final_summary
  /\ final_summary' = summarize_offline(sum_utterances)
  /\ pc' = "returned"
  /\ loc' = LocInit
  /\ UNCHANGED <<pass, bufferVars, last_text, lock, running, clock,
                 last_summary_time, cbVars, outVars, envVars>>

NextSummarizer ==
  \/ add_utterance
  \/ ExtractTopicsCall
  \/ SummarizeOfflineCall

SummarizerSpec == InitSummarizer /\ [][NextSummarizer]_vars

--------------------------------------------------------------------------
(* Properties                                                              *)

Last(s) == s[Len(s)]

IsSuffix(w, s) == Len(w) <= Len(s) /\ w = SubSeq(s, Len(s) - Len(w) + 1, Len(s))

\* the document was built by summarize_offline
IsOffline(d) == d # NoneDoc /\ d.summary = OfflineSummaryText

\* the positions of _process_text after the duplicate test and before the append
PastDedup == {"set_last", "lock", "append_live", "append_all"}

\* C1: with one callback at a time, no two consecutive entries of
\* all_utterances have the same text, and a text that equals the last
\* accepted one never gets past the duplicate test of _process_text
C1_NoConsecutiveDuplicates ==
  /\ \A i \in 1..(Len(all_utterances) - 1) :
       all_utterances[i].text # all_utterances[i + 1].text
  /\ \A c \in callers :
       (cb_pc[c] \in PastDedup /\ all_utterances # <<>>)
         => cb_text[c] # Last(all_utterances).text

\* a second _process_text(t) right after an accepted _process_text(t), at its
\* duplicate test, padded differently by the recognizer or not
C1_Witness ==
  /\ cb_pc["cb1"] = "dedup"
  /\ Len(all_utterances) = 1
  /\ cb_text["cb1"] = all_utterances[1].text
  /\ lock = "free"

\* C2: whenever the buffer lock is free, live_transcript has at most 5
\* entries and is a suffix of the texts of all_utterances
C2_WindowIsSuffixOfLog ==
  lock = "free" =>
    /\ Len(live_transcript) <= TranscriptMaxLen
    /\ IsSuffix(live_transcript, Texts(all_utterances))

\* stop_listening(wait_for_stop=False) has been called
Stopped == ~running /\ pc \notin {"calibrate", "listen_bg", "raised_startup"}

\* C3: once capture has been signalled to stop, no step changes
\* all_utterances, summarizer.utterances or live_transcript
C3_LateResultsDropped == [][Stopped => UNCHANGED bufferVars]_vars

\* the step ends a summarize() call by a return of summarize_offline
OfflineReturn == pc = "off_highlights" /\ pc' \in {"display", "save_lock"}

\* what summarize() has returned, after a step that ends the call
Returned == IF pc = "display" THEN live_summary_cache ELSE final_summary

\* C4: summarize(prefer_gemini=True) never raises to its caller, and when the
\* adapter is unavailable what it returns is summarize_offline() of the log
C4_FallbackEqualsOffline ==
  [][/\ pc' # "raised_summarize"
     /\ OfflineReturn => Returned' = summarize_offline(sum_utterances)]_vars

\* C5: every document summarize_offline returns is summarize_offline of one
\* prefix of the utterance log
C5_ConsistentSnapshot ==
  [][OfflineReturn =>
       \E n \in 0..Len(sum_utterances) :
         Returned' = summarize_offline(SubSeq(sum_utterances, 1, n))]_vars

\* the utterances of a persisted transcript
TranscriptUtterances(t) == [i \in 1..Len(t.lines) |-> [ts |-> t.lines[i].rel, text |-> t.lines[i].text]]

\* C6: when run ends after an interrupt, the persisted summary is the summary
\* of exactly the utterances of the persisted transcript
C6_FinalSummaryCoversTranscript ==
  (pc = "done" /\ IsOffline(out_summary_json))
    => out_summary_json = summarize_offline(TranscriptUtterances(out_transcript))

\* C7: a step taken while a periodic summarization pass runs leaves the
\* coordinator in its loop (or in the interrupt handler), and leaves the
\* cached summary as it is unless the step is the return of the pass
C7_PassFailureContained ==
  [][pass = "periodic" =>
       /\ pc' \in TryBlock \cup {"stop"}
       /\ pass' = "periodic" => live_summary_cache' = live_summary_cache]_vars

\* a render step of _display_dashboard
RenderTick == DisplayAcquire \/ DisplayRender

\* C8: while a periodic summarization pass is in progress, a render step can
\* be taken (as soon as the buffer lock is free)
C8_RenderNotStalled ==
  (pass = "periodic" /\ lock = "free") => ENABLED RenderTick

\* C9: while a summarization pass (periodic or final) is in progress the main
\* thread does not hold the buffer lock, the only thing _process_text waits for
C9_SummarizeHoldsNoLock == pass # "none" => lock # MAIN

\* a pass that computed its topics on the empty log, during which
\* _process_text has completed an append
C9_Witness ==
  /\ pass = "periodic"
  /\ pc = "off_classify"
  /\ loc.topics = <<>>
  /\ Len(sum_utterances) = 1
  /\ Len(all_utterances) = 1
  /\ lock = "free"

\* the state of the Live Coordinator
Phase(p, ps) ==
  IF p \in {"calibrate", "listen_bg"} THEN "Initializing"
  ELSE IF p = "done" THEN "Terminated"
  ELSE IF p \in {"raised_startup", "raised_summarize"} THEN "Aborted"
  ELSE IF p \in {"stop", "save_lock", "save_transcript"} \/ ps = "final"
       THEN "ShuttingDown"
  ELSE IF ps = "periodic" THEN "Summarizing"
  ELSE "Listening"

PhaseSteps ==
  { <<"Initializing", "Listening">>, <<"Initializing", "Aborted">>,
    <<"Listening", "Summarizing">>, <<"Summarizing", "Listening">>,
    <<"Listening", "ShuttingDown">>, <<"Summarizing", "ShuttingDown">>,
    <<"ShuttingDown", "Terminated">> }

sessionVars ==
  <<pc, pass, loc, final_summary, live_transcript, all_utterances, sum_utterances,
    last_text, lock, running, last_summary_time, live_summary_cache, cbVars, outVars>>

\* C10: the coordinator moves only along Initializing -> Listening ->
\* (Listening <-> Summarizing) -> ShuttingDown -> Terminated (or aborts from
\* Initializing), capture runs only once calibration is over, and once
\* Terminated nothing of the session changes
C10_CoordinatorStateMachine ==
  [][/\ \/ Phase(pc, pass) = Phase(pc', pass')
        \/ <<Phase(pc, pass), Phase(pc', pass')>> \in PhaseSteps
     /\ running' => Phase(pc', pass') # "Initializing"
     /\ Phase(pc, pass) = "Terminated" => UNCHANGED sessionVars]_vars

\* the keys of a SummaryDocument
SummaryKeys ==
  {"summary", "topics", "decisions", "action_items", "risks_or_followups", "highlights"}

\* the step ends a summarize() call by the return of line 185 (the AI response)
GeminiReturn == pc = "gemini_generate" /\ pc' \in {"display", "save_lock"}

\* C11: a document summarize() returns from the AI adapter has every key of
\* the SummaryDocument schema (a response that lacks one is not accepted)
C11_AiResponseValidated ==
  [][GeminiReturn => SummaryKeys \subseteq DOMAIN Returned']_vars

\* C17: the handler of an UnknownValueError returns from _audio_callback and
\* changes neither all_utterances, summarizer.utterances, live_transcript,
\* last_text nor the cached summary
C17_UnintelligibleDiscarded ==
  [][\A c \in callers :
       cb_pc[c] = "unknown" =>
         /\ UNCHANGED <<bufferVars, last_text, live_summary_cache>> \/ cb_pc'[c] = "unknown"
         /\ cb_pc'[c] \in {"unknown", "idle"}]_vars

\* an UnknownValueError caught after an utterance was accepted and summarized
C17_Witness ==
  /\ cb_pc["cb1"] = "unknown"
  /\ Len(all_utterances) = 1
  /\ Truthy(last_text)
  /\ live_summary_cache # NoneDoc

\* live_transcript without its notice lines
WithoutNotices(lt) == SelectSeq(lt, LAMBDA x : x # Notice)

\* C18: the handler of a RequestError appends the notice to live_transcript,
\* leaves all_utterances, summarizer.utterances, last_text and the listener
\* running, and returns; the utterances accepted before and after it are in
\* the window in the order of the log
C18_ServiceErrorNonFatal ==
  [][/\ \A c \in callers :
          (cb_pc[c] = "err_append" /\ cb_pc'[c] # "err_append") =>
            /\ live_transcript' = DequeAppend(live_transcript, Notice)
            /\ UNCHANGED <<all_utterances, sum_utterances, last_text, running>>
            /\ cb_pc'[c] = "idle"
     /\ lock' = "free" =>
          IsSuffix(WithoutNotices(live_transcript'), Texts(all_utterances'))]_vars

\* an utterance accepted after a notice, while capture runs
C18_Witness ==
  /\ Len(live_transcript) = 2
  /\ live_transcript[1] = Notice
  /\ Len(all_utterances) = 1
  /\ live_transcript[2] = all_utterances[1].text
  /\ running
  /\ lock = "free"

\* the positions of _process_text between the assignment of last_text and
\* the append to all_utterances
Appending == {"lock", "append_live", "append_all"}

\* C19: the return of _process_text on a text that is empty after strip()
\* changes neither all_utterances, summarizer.utterances, live_transcript nor
\* last_text, so last_text stays the text of the last accepted utterance
C19_EmptyTextNoOp ==
  [][/\ \A c \in callers :
          cb_pc[c] = "empty" =>
            /\ UNCHANGED <<bufferVars, last_text>> \/ cb_pc'[c] = "empty"
            /\ cb_pc'[c] \in {"empty", "idle"}
     /\ (\A c \in callers : cb_pc'[c] \notin Appending) =>
          IF all_utterances' = <<>> THEN last_text' = NoneText
          ELSE last_text' = Last(all_utterances').text]_vars

\* _process_text(" ") about to return, after an utterance was accepted
C19_Witness ==
  /\ cb_pc["cb1"] = "empty"
  /\ cb_text["cb1"] = <<>>
  /\ Len(all_utterances) = 1
  /\ last_text = all_utterances[1].text

\* C20: once opening the microphone or the calibration has raised, run is
\* over: listen_in_background is never called, no callback runs, and no
\* utterance is ever appended
C20_CalibrationFailureFatal ==
  [][/\ pc = "raised_startup" => pc' = "raised_startup"
     /\ pc' = "raised_startup" =>
          /\ ~running'
          /\ \A c \in callers : cb_pc'[c] = "idle"
          /\ live_transcript' = <<>>
          /\ all_utterances' = <<>>
          /\ sum_utterances' = <<>>]_vars

\* the calibration has raised, and time has passed since
C20_Witness == pc = "raised_startup" /\ clock = ClockEnd

\* a whole document: one the AI adapter returned, or one of summarize_offline
CompleteDoc(d) ==
  \/ d \in AiResponses
  \/ DOMAIN d = SummaryKeys /\ d.summary = OfflineSummaryText

\* C22: live_summary_cache changes only by the one assignment that ends a
\* periodic pass, and at every render tick it is None or a whole document
\* that a finished pass returned
C22_CacheNeverPartial ==
  [][/\ live_summary_cache' # live_summary_cache =>
          (pass = "periodic" /\ pass' = "none" /\ pc' = "display")
     /\ pc' \in {"display", "display_read"} =>
          (live_summary_cache' = NoneDoc \/ CompleteDoc(live_summary_cache'))]_vars

\* a render tick that reads the document of a pass on a log that is not empty
C22_Witness ==
  /\ pc = "display_read"
  /\ IsOffline(live_summary_cache)
  /\ live_summary_cache.decisions # <<>>

\* C26: a step that changes all_utterances is the append of line 280 by a
\* callback, and adds one entry at the end; so the log only grows
C26_AppendOnlySingleWriter ==
  [][all_utterances' # all_utterances =>
       \E c \in callers :
         /\ cb_pc[c] = "append_all"
         /\ cb_pc'[c] = "append_sum"
         /\ all_utterances' =
              Append(all_utterances, [ts |-> cb_now[c], text |-> cb_text[c]])]_vars

\* the session is over with two utterances in the log, saved
C26_Witness ==
  /\ pc = "done"
  /\ Len(all_utterances) = 2
  /\ Len(out_transcript.lines) = 2
  /\ live_summary_cache # NoneDoc

\* C28: a periodic pass starts only when more than SUMMARIZE_INTERVAL has
\* elapsed since last_summary_time, which is 0 or the time the previous
\* periodic pass returned; and the loop comes back to its test only through
\* _display_dashboard, whether a pass was due or not
C28_TimeTriggered ==
  [][/\ (pass = "none" /\ pass' = "periodic") =>
          clock - last_summary_time > SUMMARIZE_INTERVAL
     /\ last_summary_time' # last_summary_time =>
          (pass = "periodic" /\ pass' = "none" /\ last_summary_time' = clock)
     /\ (pc = "loop" /\ pc' # "loop") => pc' \in {"summarize", "display", "stop"}
     /\ (pc # "loop" /\ pc' = "loop") => pc \in {"listen_bg", "display_read"}]_vars

\* a second periodic pass, started after the first one returned
C28_Witness ==
  /\ pass = "periodic"
  /\ pc = "summarize"
  /\ last_summary_time > 0
  /\ live_summary_cache # NoneDoc

\* C30: whenever no thread holds the buffer lock, all_utterances and
\* summarizer.utterances are the same sequence of (timestamp, text) pairs
C30_LogsNeverDiverge == lock = "free" => all_utterances = sum_utterances

\* two utterances accepted at different times, in both logs
C30_Witness ==
  /\ lock = "free"
  /\ Len(all_utterances) = 2
  /\ all_utterances[1].ts # all_utterances[2].ts
  /\ Len(sum_utterances) = 2

C29_ShutdownCompletes == (pc = "stop") ~> (pc = "done")

\* every utterance of the log is in the transcript that was written
Persisted ==
  /\ out_transcript # NoneDoc
  /\ Len(out_transcript.lines) >= Len(all_utterances)
  /\ \A i \in 1..Len(all_utterances) : out_transcript.lines[i].text = all_utterances[i].text

\* C32: no accepted utterance is lost on shutdown: once the run loop is
\* interrupted with utterances in the log, the transcript is written and
\* holds every one of them
C32_NoUtteranceLost ==
  (pc = "stop" /\ all_utterances # <<>>) ~> (pc = "done" /\ Persisted)

--------------------------------------------------------------------------
(* Properties of the summarizer alone (SummarizerSpec)                     *)

IsPrefix(w, s) == Len(w) <= Len(s) /\ w = SubSeq(s, 1, Len(w))

\* the number of places of x in s
Count(s, x) == Cardinality({i \in 1..Len(s) : s[i] = x})

\* the sentence holds one of the triggers
HasTrigger(sent, triggers) == \E i \in 1..Len(sent) : sent[i] \in triggers

\* the task of every action item
Tasks(items) == [i \in 1..Len(items) |-> items[i].task]

\* the log with every timestamp replaced
Retime(utts) == [i \in 1..Len(utts) |-> [ts |-> 0, text |-> utts[i].text]]

\* C12: the document summarize_offline returns has at most 6 topics, 10
\* decisions, 20 action items, 10 risks and 8 highlights, and each list is a
\* prefix of the complete list of candidates of its category
C12_CapsAfterCandidates ==
  pc = "returned" =>
    LET d == final_summary
        cand == OfflineCandidates(sum_utterances)
        text == AllText(sum_utterances)
    IN  /\ Len(d.topics) <= 6
        /\ Len(d.decisions) <= 10
        /\ Len(d.action_items) <= 20
        /\ Len(d.risks_or_followups) <= 10
        /\ Len(d.highlights) <= 8
        /\ IsPrefix(d.topics, extract_topics(text, Len(text)))
        /\ IsPrefix(d.decisions, cand.decisions)
        /\ IsPrefix(d.action_items, cand.action_items)
        /\ IsPrefix(d.risks_or_followups, cand.risks_or_followups)
        /\ IsPrefix(d.highlights, OfflineHighlightCandidates(sum_utterances))

\* a log on which every category has more candidates than its cap
C12_Witness ==
  /\ pc = "returned"
  /\ Len(final_summary.topics) = 6
  /\ Len(extract_topics(AllText(sum_utterances), 100)) > 6
  /\ Len(final_summary.decisions) = 10
  /\ Len(final_summary.action_items) = 20
  /\ Len(final_summary.risks_or_followups) = 10
  /\ Len(final_summary.highlights) = 8
  /\ Len(OfflineCandidates(sum_utterances).decisions) > 10
  /\ Len(OfflineCandidates(sum_utterances).action_items) > 20
  /\ Len(OfflineCandidates(sum_utterances).risks_or_followups) > 10
  /\ Len(OfflineHighlightCandidates(sum_utterances)) > 8

\* C13: every sentence of the log is among the decision candidates as often
\* as it occurs if it holds a decision trigger and not at all otherwise, and
\* the same for the action items and the action triggers and for the risks
\* and the risk triggers, each category on its own; the returned document
\* holds the first 10, 20 and 10 of them
C13_IndependentClassification ==
  pc = "returned" =>
    LET sents == AllSentences(sum_utterances)
        cand == OfflineCandidates(sum_utterances)
        Expected(x, triggers) == IF HasTrigger(x, triggers) THEN Count(sents, x) ELSE 0
    IN  /\ \A i \in 1..Len(sents) :
             /\ Count(cand.decisions, sents[i]) = Expected(sents[i], decision_triggers)
             /\ Count(Tasks(cand.action_items), sents[i]) = Expected(sents[i], action_triggers)
             /\ Count(cand.risks_or_followups, sents[i]) = Expected(sents[i], risk_triggers)
        /\ Len(cand.decisions) <= Len(sents)
        /\ Len(cand.action_items) <= Len(sents)
        /\ Len(cand.risks_or_followups) <= Len(sents)
        /\ final_summary.decisions = Take(cand.decisions, 10)
        /\ final_summary.action_items = Take(cand.action_items, 20)
        /\ final_summary.risks_or_followups = Take(cand.risks_or_followups, 10)

\* the log of scenario 1 followed by an utterance with a sentence that holds
\* a decision and an action trigger
C13_Witness ==
  /\ pc = "returned"
  /\ Len(sum_utterances) = 2
  /\ sum_utterances[1].text = Short
  /\ sum_utterances[2].text = Rich
  /\ final_summary.decisions[1] = Short
  /\ final_summary.topics # <<>>
  /\ Count(Tasks(final_summary.action_items), Short) = 0
  /\ \E i \in 1..Len(final_summary.decisions) :
       Count(Tasks(final_summary.action_items), final_summary.decisions[i]) = 1

Qualifies(t) ==
  /\ StrLen(t) >= 25
  /\ HasTrigger(t, decision_triggers) \/ HasTrigger(t, action_triggers) \/ StrLen(t) > 60

\* C15: highlights is the texts of the first 8 utterances of the log that
\* qualify, in the order of the log
C15_HighlightsChronological ==
  pc = "returned" =>
    LET hl == final_summary.highlights
        Q == {i \in 1..Len(sum_utterances) : Qualifies(sum_utterances[i].text)}
        Nth(k) == CHOOSE i \in Q : Cardinality({j \in Q : j <= i}) = k
    IN  /\ Len(hl) = (IF Cardinality(Q) < 8 THEN Cardinality(Q) ELSE 8)
        /\ \A k \in 1..Len(hl) : hl[k] = sum_utterances[Nth(k)].text

\* a log with an utterance that does not qualify between two that do
C15_Witness ==
  /\ pc = "returned"
  /\ Len(sum_utterances) = 3
  /\ sum_utterances[1].text = Exact25
  /\ sum_utterances[2].text = Plain60
  /\ sum_utterances[3].text = Rich
  /\ final_summary.highlights = <<Exact25, Rich>>

\* tp is the first n candidates of the text (the words that are no stop-word
\* and have 2 characters or more), ranked by descending count, and among
\* equal counts by first occurrence
RankedTopics(tp, n, text) ==
  LET words == thai_words(text)
      cands == {words[i] : i \in {j \in 1..Len(words) :
                  words[j] \notin topic_stopwords /\ StrLen(words[j]) >= 2}}
      First(w) == CHOOSE i \in 1..Len(words) :
                    words[i] = w /\ \A j \in 1..(i - 1) : words[j] # w
      Before(a, b) ==
        \/ Count(words, a) > Count(words, b)
        \/ Count(words, a) = Count(words, b) /\ First(a) < First(b)
  IN  /\ \A i \in 1..Len(tp) : tp[i] \in cands
      /\ \A i \in 1..Len(tp) : \A j \in (i + 1)..Len(tp) : Before(tp[i], tp[j])
      /\ Len(tp) = (IF Cardinality(cands) < n THEN Cardinality(cands) ELSE n)
      /\ \A w \in cands :
           (\A i \in 1..Len(tp) : tp[i] # w) => \A i \in 1..Len(tp) : Before(tp[i], w)

MatchesAt(sent, alts, i) == AltMatchAt(sent, i, alts, 1) >= 0

\* the match of the first pattern of pats, in their order, that matches
\* somewhere in the sentence, taken at its leftmost place; else the default
FirstMatch(sent, pats) ==
  LET Hit(k) == \E i \in 1..Len(sent) : MatchesAt(sent, pats[k], i)
  IN  IF \A k \in 1..Len(pats) : ~Hit(k) THEN Unspecified
      ELSE LET k == CHOOSE q \in 1..Len(pats) : Hit(q) /\ \A j \in 1..(q - 1) : ~Hit(j)
               i == CHOOSE q \in 1..Len(sent) :
                      /\ MatchesAt(sent, pats[k], q)
                      /\ \A j \in 1..(q - 1) : ~MatchesAt(sent, pats[k], j)
           IN  SubSeq(sent, i, AltMatchAt(sent, i, pats[k], 1))

\* C23: the action items are, in order, one per sentence that holds an action
\* trigger: its task is the sentence itself, its assignee the match of the
\* first assignee pattern that matches and its due the match of the first due
\* pattern that matches, each the default when no pattern matches
C23_ActionItemFields ==
  pc = "returned" =>
    LET sents == AllSentences(sum_utterances)
        acts == SelectSeq(sents, LAMBDA x : HasTrigger(x, action_triggers))
        items == final_summary.action_items
    IN  /\ Len(items) = (IF Len(acts) < 20 THEN Len(acts) ELSE 20)
        /\ \A i \in 1..Len(items) :
             /\ items[i].task = acts[i]
             /\ items[i].assignee = FirstMatch(acts[i], assignee_patterns)
             /\ items[i].due = FirstMatch(acts[i], due_patterns)

\* an item whose assignee and due come from the first pattern though a later
\* pattern matches further left, and an item with both defaults
C23_Witness ==
  /\ pc = "returned"
  /\ Len(sum_utterances) = 2
  /\ sum_utterances[1].text = Action52
  /\ sum_utterances[2].text = Rich
  /\ final_summary.action_items[1] =
       [assignee |-> <<"khun", "somchai">>, task |-> Action52,
        due |-> <<"phainai", " ", "3", " ", "wan">>]
  /\ final_summary.action_items[2].assignee = <<"khun", "somchai">>
  /\ final_summary.action_items[3] =
       [assignee |-> Unspecified, task |-> <<"tatsinchai", " ", "tongtham", " ", "siang">>,
        due |-> Unspecified]

--------------------------------------------------------------------------
(* src/PW/main.py: the recognizer pool of the transcription server.  The   *)
(* server has one event loop (workers=1) and process_audio_segment awaits  *)
(* nothing, so its calls run one after the other.                          *)

RECOGNIZER_POOL_SIZE == 3

\* a pool one recognizer larger than RECOGNIZER_POOL_SIZE
InitialPoolOversize == [i \in 1..(RECOGNIZER_POOL_SIZE + 1) |-> i]

\* the list that load_model builds, lines 118-121
InitialPool == [i \in 1..RECOGNIZER_POOL_SIZE |-> i]

\* the session and the summarizer, which the server never touches
meetingVars ==
  <<pc, pass, loc, final_summary, live_transcript, all_utterances, sum_utterances,
    last_text, lock, running, clock, last_summary_time, live_summary_cache,
    cb_pc, cb_text, cb_now, out_transcript, out_summary_json, use_gemini, callers,
    augVars>>

\* get_recognizer with line 140 handing out the first recognizer of the pool
\* while it removes the last
get_recognizer_first(pool, mdl, fresh, reset_ok) ==
  IF pool = <<>>
  THEN IF ~mdl
       THEN [pool |-> pool, recognizer |-> NoRecognizer, raised |-> "HTTPException"]
       ELSE [pool |-> pool, recognizer |-> fresh, raised |-> "no"]
  ELSE LET popped == SubSeq(pool, 1, Len(pool) - 1) IN
       IF reset_ok
       THEN [pool |-> popped, recognizer |-> pool[1], raised |-> "no"]
       ELSE [pool |-> popped, recognizer |-> NoRecognizer, raised |-> "Reset"]

\* get_recognizer(), lines 133-143: the pool it leaves, what it returns and
\* what it raises; fresh is the recognizer a KaldiRecognizer(...) call makes,
\* reset_ok tells whether recognizer.Reset() returns
get_recognizer(pool, mdl, fresh, reset_ok) ==
  IF pool = <<>>
  THEN IF ~mdl
       THEN [pool |-> pool, recognizer |-> NoRecognizer, raised |-> "HTTPException"]
       ELSE [pool |-> pool, recognizer |-> fresh, raised |-> "no"]
  ELSE LET popped == SubSeq(pool, 1, Len(pool) - 1) IN
       IF reset_ok
       THEN [pool |-> popped, recognizer |-> pool[Len(pool)], raised |-> "no"]
       ELSE [pool |-> popped, recognizer |-> NoRecognizer, raised |-> "Reset"]

\* return_recognizer(recognizer), lines 145-148
return_recognizer(pool, r) ==
  IF Len(pool) < RECOGNIZER_POOL_SIZE THEN Append(pool, r) ELSE pool

\* lifespan awaits load_model, lines 104-125
LoadModel ==
  /\ req_pc = "startup"
  /\ model' = TRUE
  /\ recognizer_pool' = InitialPool
  /\ model_loaded' = TRUE
  /\ req_pc' = "idle"
  /\ UNCHANGED <<recognizer, requests, loopVars, meetingVars>>

\* load_model raises, before the model is assigned (lines 111-115) or while
\* the pool is built (line 119); lifespan raises again and nothing is served
LoadModelFails ==
  /\ req_pc = "startup"
  /\ \E assigned \in BOOLEAN : model' = assigned
  /\ model_loaded' = FALSE
  /\ req_pc' = "startup_failed"
  /\ UNCHANGED <<recognizer_pool, recognizer, requests, loopVars, meetingVars>>

\* transcribe_audio passes its checks (line 374) and calls
\* process_audio_segment, whose first statement is line 213
Transcribe ==
  /\ req_pc = "idle"
  /\ model_loaded
  /\ requests < MaxRequests
  /\ recognizer' = NoRecognizer
  /\ req_pc' = "try"
  /\ UNCHANGED <<model, model_loaded, recognizer_pool, requests, loopVars, meetingVars>>

\* line 217: recognizer = get_recognizer(); the assignment happens only if
\* the call returns
GetRecognizer ==
  /\ req_pc = "try"
  /\ \E reset_ok \in BOOLEAN :
       LET g == get_recognizer(recognizer_pool, model,
                               RECOGNIZER_POOL_SIZE + 1 + requests, reset_ok)
       IN  /\ recognizer_pool' = g.pool
           /\ recognizer' = (IF g.raised = "no" THEN g.recognizer ELSE recognizer)
           /\ req_pc' = (IF g.raised = "no" THEN "recognize" ELSE "except")
  /\ UNCHANGED <<model, model_loaded, requests, loopVars, meetingVars>>

\* lines 219-259 run to the return
Recognize ==
  /\ req_pc = "recognize"
  /\ req_pc' = "finally"
  /\ UNCHANGED <<model, model_loaded, recognizer_pool, recognizer, requests, loopVars,
                 meetingVars>>

\* one of lines 219-259 raises
RecognizeRaises ==
  /\ req_pc = "recognize"
  /\ req_pc' = "except"
  /\ UNCHANGED <<model, model_loaded, recognizer_pool, recognizer, requests, loopVars,
                 meetingVars>>

\* lines 261-264: the exception becomes an HTTPException(500)
Except ==
  /\ req_pc = "except"
  /\ req_pc' = "finally"
  /\ UNCHANGED <<model, model_loaded, recognizer_pool, recognizer, requests, loopVars,
                 meetingVars>>

\* lines 266-269, and the call ends
Finally ==
  /\ req_pc = "finally"
  /\ recognizer_pool' = (IF recognizer # NoRecognizer
                         THEN return_recognizer(recognizer_pool, recognizer)
                         ELSE recognizer_pool)
  /\ recognizer' = NoRecognizer
  /\ requests' = requests + 1
  /\ req_pc' = "idle"
  /\ UNCHANGED <<model, model_loaded, loopVars, meetingVars>>

NextPool ==
  \/ LoadModel
  \/ LoadModelFails
  \/ Transcribe
  \/ GetRecognizer
  \/ Recognize
  \/ RecognizeRaises
  \/ Except
  \/ Finally

\* the server at import; nothing else runs
InitPool == InitSummarizer

PoolSpec == InitPool /\ [][NextPool]_vars

\* C21: between two process_audio_segment calls the pool holds as many
\* recognizers as load_model put in it, whether the calls returned or raised
C21_CheckoutReturned ==
  (req_pc = "idle" /\ model_loaded) => Len(recognizer_pool) = Len(InitialPool)

\* C27: the pool never holds more than RECOGNIZER_POOL_SIZE recognizers
C27_PoolBounded == Len(recognizer_pool) <= RECOGNIZER_POOL_SIZE

\* a call found the pool empty, made a fresh recognizer and returned it
C27_Witness ==
  /\ req_pc = "idle"
  /\ requests > 0
  /\ \E i \in 1..Len(recognizer_pool) : recognizer_pool[i] > RECOGNIZER_POOL_SIZE

--------------------------------------------------------------------------
(* src/Sp-wordCheck/augmenter.py: the simplified augmenter.  The main      *)
(* thread runs run(); the listener thread of listen_in_background calls    *)
(* _audio_callback.  The class has no lock.  rakha = ราคา and               *)
(* khukhaeng = คู่แข่ง are keywords.                                         *)

\* lines 15-19: the keys, in the order of the dict
KEYWORD_TRIGGERS == <<"rakha", "khukhaeng">>

PACING_WINDOW_SECONDS == 5

AugTranscriptMaxLen == 3

AugLogMaxLen == 5

\* what recognize_google returns: a filler, a keyword with a filler, blanks
AugTexts == { <<"oe">>, <<"rakha", " ", "oe">>, <<" ">> }

\* text.split(), line 96, for texts whose words are single tokens
SplitWords(text) == SelectSeq(text, LAMBDA t : t \notin WhiteSpace)

\* deque(maxlen=n).append(x)
BoundedAppend(d, x, n) == IF Len(d) >= n THEN Append(Tail(d), x) ELSE Append(d, x)

\* what the simplified augmenter never touches
augFrame ==
  <<pc, pass, loc, final_summary, all_utterances, sum_utterances, last_text, lock,
    last_summary_time, live_summary_cache, cb_pc, cb_text, cb_now, out_transcript,
    out_summary_json, use_gemini, callers, poolVars>>

\* what _audio_callback writes and the main thread reads
augShared ==
  <<live_transcript, filler_word_counts, pacing_word_count, triggered_keywords_log>>

\* run(), lines 131-136: calibration, then listen_in_background
AugStart ==
  /\ aug_pc = "calibrate"
  /\ aug_pc' = "display"
  /\ running' = TRUE
  /\ UNCHANGED <<augShared, pacing_start_time, spoken_text_history, aug_cb, aug_text,
                 phrases, clock, augFrame>>

\* _display_dashboard, lines 52-58: the transcript is printed
DisplayTranscript ==
  /\ aug_pc = "display"
  /\ aug_pc' = "shown_transcript"
  /\ UNCHANGED <<augShared, pacing_start_time, spoken_text_history, aug_cb, aug_text,
                 phrases, clock, running, augFrame>>

\* lines 61-68: the filler counts are printed
DisplayFillers ==
  /\ aug_pc = "shown_transcript"
  /\ aug_pc' = "shown_fillers"
  /\ UNCHANGED <<augShared, pacing_start_time, spoken_text_history, aug_cb, aug_text,
                 phrases, clock, running, augFrame>>

\* lines 71-82: the pacing is printed
DisplayPacing ==
  /\ aug_pc = "shown_fillers"
  /\ aug_pc' = "shown_pacing"
  /\ UNCHANGED <<augShared, pacing_start_time, spoken_text_history, aug_cb, aug_text,
                 phrases, clock, running, augFrame>>

\* lines 85-92: the keyword log is printed and _display_dashboard returns
DisplayKeywords ==
  /\ aug_pc = "shown_pacing"
  /\ aug_pc' = "window"
  /\ UNCHANGED <<augShared, pacing_start_time, spoken_text_history, aug_cb, aug_text,
                 phrases, clock, running, augFrame>>

\* line 142, then line 143 when the window is over, else the sleep of line 145
CheckWindow ==
  /\ aug_pc = "window"
  /\ IF clock - pacing_start_time > PACING_WINDOW_SECONDS
     THEN /\ pacing_start_time' = clock
          /\ aug_pc' = "reset_count"
     ELSE /\ aug_pc' = "display"
          /\ UNCHANGED pacing_start_time
  /\ UNCHANGED <<augShared, spoken_text_history, aug_cb, aug_text, phrases, clock,
                 running, augFrame>>

\* line 144, then the sleep of line 145
ResetCount ==
  /\ aug_pc = "reset_count"
  /\ pacing_word_count' = 0
  /\ aug_pc' = "display"
  /\ UNCHANGED <<live_transcript, filler_word_counts, triggered_keywords_log,
                 pacing_start_time, spoken_text_history, aug_cb, aug_text, phrases,
                 clock, running, augFrame>>

\* Ctrl+C anywhere in the loop, lines 146-149: stop_listening(wait_for_stop=False)
AugInterrupt ==
  /\ aug_pc \in {"display", "shown_transcript", "shown_fillers", "shown_pacing",
                  "window", "reset_count"}
  /\ aug_pc' = "stopped"
  /\ running' = FALSE
  /\ UNCHANGED <<augShared, pacing_start_time, spoken_text_history, aug_cb, aug_text,
                 phrases, clock, augFrame>>

\* the listener calls _audio_callback and recognize_google returns, line 120
AugRecognize ==
  /\ running
  /\ aug_cb = "idle"
  /\ phrases < MaxPhrases
  /\ \E text \in AugTexts : aug_text' = text
  /\ aug_cb' = "split"
  /\ phrases' = phrases + 1
  /\ UNCHANGED <<augShared, pacing_start_time, spoken_text_history, aug_pc, clock,
                 running, augFrame>>

\* recognize_google raises UnknownValueError, lines 122-123
AugUnknown ==
  /\ running
  /\ aug_cb = "idle"
  /\ phrases < MaxPhrases
  /\ phrases' = phrases + 1
  /\ UNCHANGED <<augShared, pacing_start_time, spoken_text_history, aug_pc, aug_cb,
                 aug_text, clock, running, augFrame>>

\* recognize_google raises RequestError, lines 124-126
AugRequestError ==
  /\ running
  /\ aug_cb = "idle"
  /\ phrases < MaxPhrases
  /\ phrases' = phrases + 1
  /\ triggered_keywords_log' = BoundedAppend(triggered_keywords_log, "error", AugLogMaxLen)
  /\ UNCHANGED <<live_transcript, filler_word_counts, pacing_word_count,
                 pacing_start_time, spoken_text_history, aug_pc, aug_cb, aug_text,
                 clock, running, augFrame>>

\* _process_text, lines 96-100
AugAppend ==
  /\ aug_cb = "split"
  /\ IF SplitWords(aug_text) = <<>>
     THEN /\ aug_cb' = "idle"
          /\ aug_text' = <<>>
          /\ UNCHANGED live_transcript
     ELSE /\ live_transcript' = BoundedAppend(live_transcript, aug_text, AugTranscriptMaxLen)
          /\ aug_cb' = "fillers"
          /\ UNCHANGED aug_text
  /\ UNCHANGED <<filler_word_counts, pacing_word_count, triggered_keywords_log,
                 pacing_start_time, spoken_text_history, aug_pc, phrases, clock,
                 running, augFrame>>

\* lines 103-105
AugFillers ==
  /\ aug_cb = "fillers"
  /\ filler_word_counts' =
       [w \in DOMAIN filler_word_counts |->
          filler_word_counts[w] + Count(SplitWords(aug_text), w)]
  /\ aug_cb' = "pacing"
  /\ UNCHANGED <<live_transcript, pacing_word_count, triggered_keywords_log,
                 pacing_start_time, spoken_text_history, aug_pc, aug_text, phrases,
                 clock, running, augFrame>>

\* line 108
AugPacing ==
  /\ aug_cb = "pacing"
  /\ pacing_word_count' = pacing_word_count + Len(SplitWords(aug_text))
  /\ aug_cb' = "keywords"
  /\ UNCHANGED <<live_transcript, filler_word_counts, triggered_keywords_log,
                 pacing_start_time, spoken_text_history, aug_pc, aug_text, phrases,
                 clock, running, augFrame>>

\* the keywords of lines 111-115 that are logged, in the order of the dict
NewKeywords(text, history) ==
  SelectSeq(KEYWORD_TRIGGERS,
            LAMBDA k : (\E i \in 1..Len(text) : text[i] = k) /\ k \notin history)

RECURSIVE ExtendBounded(_, _, _)
ExtendBounded(d, xs, n) ==
  IF xs = <<>> THEN d ELSE ExtendBounded(BoundedAppend(d, Head(xs), n), Tail(xs), n)

\* lines 111-115, and _audio_callback returns
AugKeywords ==
  /\ aug_cb = "keywords"
  /\ LET new == NewKeywords(aug_text, spoken_text_history) IN
       /\ triggered_keywords_log' = ExtendBounded(triggered_keywords_log, new, AugLogMaxLen)
       /\ spoken_text_history' = spoken_text_history \cup {new[i] : i \in 1..Len(new)}
  /\ aug_cb' = "idle"
  /\ aug_text' = <<>>
  /\ UNCHANGED <<live_transcript, filler_word_counts, pacing_word_count,
                 pacing_start_time, aug_pc, phrases, clock, running, augFrame>>

\* a second passes
AugTick ==
  /\ clock - (SUMMARIZE_INTERVAL + 1) < MaxAugTicks
  /\ clock' = clock + 1
  /\ UNCHANGED <<augShared, pacing_start_time, spoken_text_history, aug_pc, aug_cb,
                 aug_text, phrases, running, augFrame>>

NextSimple ==
  \/ AugStart
  \/ DisplayTranscript
  \/ DisplayFillers
  \/ DisplayPacing
  \/ DisplayKeywords
  \/ CheckWindow
  \/ ResetCount
  \/ AugInterrupt
  \/ AugRecognize
  \/ AugUnknown
  \/ AugRequestError
  \/ AugAppend
  \/ AugFillers
  \/ AugPacing
  \/ AugKeywords
  \/ AugTick

\* the augmenter after __init__; nothing else runs
InitSimple == InitSummarizer

SimpleSpec == InitSimple /\ [][NextSimple]_vars

\* the main thread is part-way through _display_dashboard, or between the
\* two assignments of lines 143-144
MidSection == aug_pc \in {"shown_transcript", "shown_fillers", "shown_pacing", "reset_count"}

\* C24: while the main thread is part-way through reading the shared state in
\* _display_dashboard, or through the reset of lines 143-144, no step of the
\* callback changes live_transcript, filler_word_counts, pacing_word_count or
\* triggered_keywords_log
C24_ProtectedSections ==
  [][(MidSection /\ aug_pc' = aug_pc) => UNCHANGED augShared]_vars

--------------------------------------------------------------------------
(* src/PW/main.py: concurrent /transcribe requests.  The handlers are       *)
(* coroutines of one event loop: a handler runs until it awaits.            *)
(* transcribe_audio awaits audio_file.read() (line 390); the body of        *)
(* process_audio_segment awaits nothing, so once a request is in it no      *)
(* other handler runs until it has ended.                                   *)

\* the event loop is not inside a process_audio_segment call
LoopFree == \A q \in Requests : rq_pc[q] \in {"none", "reading"}

InFlight == {q \in Requests : rq_pc[q] # "none"}

\* what a step of a request leaves alone
requestFrame == <<model, model_loaded, recognizer, req_pc, meetingVars>>

\* transcribe_audio, lines 374-390: the checks pass and the handler awaits
\* audio_file.read()
Accept(r) ==
  /\ req_pc = "idle"
  /\ model_loaded
  /\ LoopFree
  /\ rq_pc[r] = "none"
  /\ requests + Cardinality(InFlight) < MaxRequests
  /\ rq_pc' = [rq_pc EXCEPT ![r] = "reading"]
  /\ UNCHANGED <<recognizer_pool, rq_recognizer, requests, requestFrame>>

\* lines 390-393: the read raises or the file is empty, the request ends
ReadFails(r) ==
  /\ LoopFree
  /\ rq_pc[r] = "reading"
  /\ rq_pc' = [rq_pc EXCEPT ![r] = "none"]
  /\ UNCHANGED <<recognizer_pool, rq_recognizer, requests, requestFrame>>

\* the read is over, lines 395-398: process_audio_segment is called and runs
\* line 213
BeginSegment(r) ==
  /\ LoopFree
  /\ rq_pc[r] = "reading"
  /\ rq_pc' = [rq_pc EXCEPT ![r] = "try"]
  /\ rq_recognizer' = [rq_recognizer EXCEPT ![r] = NoRecognizer]
  /\ UNCHANGED <<recognizer_pool, requests, requestFrame>>

\* line 217
SegmentGet(r) ==
  /\ rq_pc[r] = "try"
  /\ \E reset_ok \in BOOLEAN :
       LET g == get_recognizer(recognizer_pool, model,
                               RECOGNIZER_POOL_SIZE + 1 + requests, reset_ok)
       IN  /\ recognizer_pool' = g.pool
           /\ rq_recognizer' =
                [rq_recognizer EXCEPT ![r] = IF g.raised = "no" THEN g.recognizer ELSE @]
           /\ rq_pc' = [rq_pc EXCEPT ![r] = IF g.raised = "no" THEN "recognize" ELSE "except"]
  /\ UNCHANGED <<requests, requestFrame>>

\* lines 219-259 run to the return
SegmentRecognize(r) ==
  /\ rq_pc[r] = "recognize"
  /\ rq_pc' = [rq_pc EXCEPT ![r] = "finally"]
  /\ UNCHANGED <<recognizer_pool, rq_recognizer, requests, requestFrame>>

\* one of lines 219-259 raises
SegmentRaises(r) ==
  /\ rq_pc[r] = "recognize"
  /\ rq_pc' = [rq_pc EXCEPT ![r] = "except"]
  /\ UNCHANGED <<recognizer_pool, rq_recognizer, requests, requestFrame>>

\* lines 261-264
SegmentExcept(r) ==
  /\ rq_pc[r] = "except"
  /\ rq_pc' = [rq_pc EXCEPT ![r] = "finally"]
  /\ UNCHANGED <<recognizer_pool, rq_recognizer, requests, requestFrame>>

\* lines 266-269, and the request ends
SegmentFinally(r) ==
  /\ rq_pc[r] = "finally"
  /\ recognizer_pool' = (IF rq_recognizer[r] # NoRecognizer
                         THEN return_recognizer(recognizer_pool, rq_recognizer[r])
                         ELSE recognizer_pool)
  /\ rq_recognizer' = [rq_recognizer EXCEPT ![r] = NoRecognizer]
  /\ rq_pc' = [rq_pc EXCEPT ![r] = "none"]
  /\ requests' = requests + 1
  /\ UNCHANGED requestFrame

NextServer ==
  \/ LoadModel
  \/ LoadModelFails
  \/ \E r \in Requests : Accept(r)
  \/ \E r \in Requests : ReadFails(r)
  \/ \E r \in Requests : BeginSegment(r)
  \/ \E r \in Requests : SegmentGet(r)
  \/ \E r \in Requests : SegmentRecognize(r)
  \/ \E r \in Requests : SegmentRaises(r)
  \/ \E r \in Requests : SegmentExcept(r)
  \/ \E r \in Requests : SegmentFinally(r)

ServerSpec == InitPool /\ [][NextServer]_vars

\* C31: no recognizer is the local of two requests at once, and none is
\* twice in recognizer_pool
C31_PoolExclusive ==
  /\ \A r, q \in Requests :
       (r # q /\ rq_recognizer[r] # NoRecognizer) => rq_recognizer[r] # rq_recognizer[q]
  /\ \A i, j \in 1..Len(recognizer_pool) :
       i # j => recognizer_pool[i] # recognizer_pool[j]

\* two requests in flight, one holding a recognizer, after an earlier request
\* has taken a recognizer and returned it
C31_Witness ==
  /\ requests > 0
  /\ \E r, q \in Requests :
       /\ rq_pc[r] = "recognize"
       /\ rq_recognizer[r] # NoRecognizer
       /\ rq_pc[q] = "reading"
  /\ Len(recognizer_pool) = RECOGNIZER_POOL_SIZE - 1

==========================================================================
